---- MODULE Spec2Model ----
(***************************************************************************)
(* Model of the OKR dashboard of app.py: the cached loader load_data, the  *)
(* chart builders create_radar_plot and create_okr_progress_chart, and the *)
(* script main, which Streamlit runs from top to bottom once for every     *)
(* user interaction of a session.                                          *)
(*                                                                         *)
(* A DataFrame is a sequence of rows; a row is a record of its columns     *)
(* plus idx, the pandas index label read_csv gives it (its position in the *)
(* file), which filtering and sorting carry along.  okr values are small   *)
(* integers standing for strings in their sort order.  A float is an exact *)
(* rational [nan, num, den]; nan = TRUE is pandas' NaN.                    *)
(***************************************************************************)
EXTENDS Integers, Sequences, FiniteSets, TLC

VARIABLES
    file,      \* contents of index_goals.csv on disk
    cache,     \* the st.cache_data entry of load_data (process-wide)
    firstRef,  \* the object the first successful load_data call returned
    reads,     \* number of pd.read_csv calls made by the process
    sess,      \* per browser session: widget state and last script run
    raw,       \* builder harness: the file handed to load_data
    df,        \* builder harness: the table load_data returned
    out,       \* builder harness: result of the last builder applied
    bpc        \* builder harness: position ("file", "loaded")

vars == <<file, cache, firstRef, reads, sess, raw, df, out, bpc>>

----------------------------------------------------------------------------
(* Bounds and input domains *)

MaxRows == 2
MaxReads == 2

Goals == {1, 2}
Objectives == {1, 2}
Okrs == {1, 2}
Sessions == {1, 2}

\* Python's None: what st.selectbox returns when it has no options.
None == 0

\* highest status code of status_mapping
MaxStatus == 4

\* status codes a file can carry: the mapped ones and one beyond them
RawStatuses == 0..(MaxStatus + 1)

\* goal arguments handed to the builders: the goals and one no table holds
GoalArgs == Goals \cup {3}

RawRows == [goal : Goals, objective : Objectives, okr : Okrs, status : RawStatuses]

SeqsUpTo(S, n) == UNION {[1..k -> S] : k \in 0..n}

\* A readable CSV with the four columns, with or without a status_label
\* column of its own (whose cells all read "Stale").
CsvFiles(rows) ==
    [kind : {"csv"}, labelCol : BOOLEAN, rows : SeqsUpTo(rows, MaxRows)]

\* Sources on which load_data raises: no file (FileNotFoundError), not
\* parseable or empty (ParserError, EmptyDataError), no status column
\* (KeyError at df['status']).
BadFiles ==
    [kind : {"missing", "malformed", "nostatus"}, labelCol : {FALSE}, rows : {<< >>}]

----------------------------------------------------------------------------
(* Floats as exact rationals *)

NaN == [nan |-> TRUE, num |-> 0, den |-> 1]

Num(n, d) == [nan |-> FALSE, num |-> n, den |-> d]

\* x / k
Div(x, k) == IF x.nan THEN NaN ELSE Num(x.num, x.den * k)

\* x * k
Mul(x, k) == IF x.nan THEN NaN ELSE Num(x.num * k, x.den)

RECURSIVE Sum(_)
Sum(s) == IF s = << >> THEN 0 ELSE Head(s) + Sum(Tail(s))

\* mean that answers 0 over zero values
MeanZeroFill(s) == IF Len(s) = 0 THEN Num(0, 1) ELSE Num(Sum(s), Len(s))

\* pandas Series.mean(): NaN over zero values, no exception
Mean(s) == IF Len(s) = 0 THEN NaN ELSE Num(Sum(s), Len(s))

\* f"{x:.1f}": x rounded half-even to tenths (the ties of these values are
\* exact in binary); "nan" for NaN
Fmt1(x) ==
    IF x.nan THEN [nan |-> TRUE, tenths |-> 0]
    ELSE LET n == x.num * 10
             q == n \div x.den
             r == n % x.den
             up == (2 * r > x.den) \/ (2 * r = x.den /\ q % 2 = 1)
         IN  [nan |-> FALSE, tenths |-> IF up THEN q + 1 ELSE q]

----------------------------------------------------------------------------
(* load_data *)

status_mapping ==
    (0 :> "Not Started") @@ (1 :> "Planned") @@ (2 :> "Ongoing") @@
    (3 :> "Optimizing") @@ (4 :> "Completed")

\* the missing value Series.map leaves for a key the dict does not hold
NoLabel == "NaN"

\* Series.map(status_mapping) on one value
MapStatus(s) == IF s \in DOMAIN status_mapping THEN status_mapping[s] ELSE NoLabel

\* pd.read_csv: one row per line, indexed by position; the file's own
\* status_label column, when it has one, is read like any other
ReadCsv(f) ==
    [i \in DOMAIN f.rows |->
        IF f.labelCol
        THEN [idx |-> i, goal |-> f.rows[i].goal, objective |-> f.rows[i].objective,
              okr |-> f.rows[i].okr, status |-> f.rows[i].status,
              status_label |-> "Stale"]
        ELSE [idx |-> i, goal |-> f.rows[i].goal, objective |-> f.rows[i].objective,
              okr |-> f.rows[i].okr, status |-> f.rows[i].status]]

\* assignment that keeps a column the frame already has
SetColKeep(r, col, v) ==
    [c \in (DOMAIN r) \cup {col} |-> IF c \in DOMAIN r THEN r[c] ELSE v]

\* df[col] = value on one row: adds the column or overwrites it
SetCol(r, col, v) ==
    [c \in (DOMAIN r) \cup {col} |-> IF c = col THEN v ELSE r[c]]

\* df['status_label'] = df['status'].map(status_mapping)
AddStatusLabel(d) ==
    [i \in DOMAIN d |-> SetCol(d[i], "status_label", MapStatus(d[i].status))]

\* whether the body of load_data raises on this source
LoadRaises(f) == f.kind # "csv"

\* the body of load_data on a source it does not raise on
load_data(f) == AddStatusLabel(ReadCsv(f))

----------------------------------------------------------------------------
(* DataFrame helpers *)

\* df[col] as a sequence
Column(d, col) == [i \in DOMAIN d |-> d[i][col]]

\* df[df['goal'] == g], row order kept
FilterGoal(d, g) == SelectSeq(d, LAMBDA r : r.goal = g)

FilterObjective(d, o) == SelectSeq(d, LAMBDA r : r.objective = o)

Range(s) == {s[i] : i \in DOMAIN s}

\* Series.unique(): distinct values in order of first appearance
RECURSIVE Unique(_)
Unique(s) ==
    IF s = << >> THEN << >>
    ELSE LET rest == Unique(SelectSeq(Tail(s), LAMBDA x : x # Head(s)))
         IN  <<Head(s)>> \o rest

\* sorted(values): ascending sequence of a set of integers
RECURSIVE SortedSeq(_)
SortedSeq(S) ==
    IF S = {} THEN << >>
    ELSE LET m == CHOOSE x \in S : \A y \in S : x <= y
         IN  <<m>> \o SortedSeq(S \ {m})

----------------------------------------------------------------------------
(* Chart builders *)

\* go.Scatterpolar of create_radar_plot: one axis per objective of the goal,
\* r the mean status / 4, and in the hover text the percentage and num_okrs
RadarAxis(goal_data, obj) ==
    LET obj_data == FilterObjective(goal_data, obj)
        avg_status == Div(Mean(Column(obj_data, "status")), 4)
    IN  [objective |-> obj, r |-> avg_status,
         pct |-> Fmt1(Mul(avg_status, 100)), num_okrs |-> Len(obj_data)]

\* a radar over the whole table, whatever the goal asked for
create_radar_plot_unfiltered(d, goal_number) ==
    LET objectives == Unique(Column(d, "objective"))
    IN  [i \in DOMAIN objectives |-> RadarAxis(d, objectives[i])]

create_radar_plot(d, goal_number) ==
    LET goal_data == FilterGoal(d, goal_number)
        objectives == Unique(Column(goal_data, "objective"))
    IN  [i \in DOMAIN objectives |-> RadarAxis(goal_data, objectives[i])]

\* px.bar(goal_data, x='okr', y='status', color='objective')
create_okr_progress_chart(d, goal_number) ==
    LET goal_data == FilterGoal(d, goal_number)
    IN  [i \in DOMAIN goal_data |->
            [okr |-> goal_data[i].okr, status |-> goal_data[i].status,
             objective |-> goal_data[i].objective]]

\* completion that forgets the normalisation by 4
CompletionNoScale(m) == Mul(m, 100)

\* completion of one group: mean status / 4 * 100
Completion(m) == Mul(Div(m, 4), 100)

\* df.groupby('goal')['status'].mean().reset_index() with the completion
\* column: one row per goal, keys ascending
GoalsProgress(d) ==
    LET keys == SortedSeq(Range(Column(d, "goal")))
    IN  [i \in DOMAIN keys |->
            LET m == Mean(Column(FilterGoal(d, keys[i]), "status"))
            IN  [goal |-> keys[i], status |-> m, completion |-> Completion(m)]]

\* (objective, okr) of a <= that of b
KeyLeq(a, b) ==
    \/ a.objective < b.objective
    \/ a.objective = b.objective /\ a.okr <= b.okr

\* place r in front of the rows whose key equals r's
RECURSIVE InsertRowBefore(_, _)
InsertRowBefore(s, r) ==
    IF s = << >> THEN <<r>>
    ELSE IF KeyLeq(r, Head(s)) THEN <<r>> \o s
    ELSE <<Head(s)>> \o InsertRowBefore(Tail(s), r)

\* place r behind every row of the sorted s whose key is <= r's
RECURSIVE InsertRow(_, _)
InsertRow(s, r) ==
    IF s = << >> THEN <<r>>
    ELSE IF KeyLeq(Head(s), r) THEN <<Head(s)>> \o InsertRow(Tail(s), r)
    ELSE <<r>> \o s

RECURSIVE SortFrom(_, _)
SortFrom(acc, s) ==
    IF s = << >> THEN acc ELSE SortFrom(InsertRow(acc, Head(s)), Tail(s))

\* DataFrame.sort_values(['objective', 'okr']): ascending; rows of equal
\* key stay in their order (pandas sorts several keys with a lexsort)
SortValues(d) == SortFrom(<< >>, d)

\* goal_data[['objective', 'okr', 'status_label']].sort_values([...])
GoalDetails(goal_data) ==
    SortValues([i \in DOMAIN goal_data |->
        [idx |-> goal_data[i].idx, objective |-> goal_data[i].objective,
         okr |-> goal_data[i].okr, status_label |-> goal_data[i].status_label]])

----------------------------------------------------------------------------
(* What one run of main puts on the page *)

\* kinds: the components in the order rendered; the other fields: their
\* data (total_okrs and goal_completion are computed and never displayed)
Page ==
    [kinds |-> << >>, total_goals |-> 0, total_items |-> 0,
     avg_completion |-> Fmt1(NaN), goals_progress |-> << >>, status_dist |-> << >>,
     selected_goal |-> None, total_okrs |-> 0, goal_completion |-> NaN,
     radar |-> << >>, okr_chart |-> << >>, goal_details |-> << >>]

TitleKinds == <<"title">>
NavKinds == <<"title", "radio">>
OverviewKinds == NavKinds \o <<"metric", "metric", "metric", "bar_goals", "pie">>
DetailKinds == NavKinds \o <<"selectbox", "radar", "bar_okrs", "dataframe">>

\* except branch without the st.stop()
ErrorPageNoStop == [Page EXCEPT !.kinds = TitleKinds \o <<"error", "radio">>]

\* except branch: st.error, then st.stop() ends the run
ErrorPage == [Page EXCEPT !.kinds = TitleKinds \o <<"error">>]

\* if view_type == "Overview": metrics, goals bar chart, status pie
OverviewPage(d) ==
    [Page EXCEPT
        !.kinds = OverviewKinds,
        !.total_items = Len(d),
        !.total_goals = Len(Unique(Column(d, "goal"))),
        !.avg_completion = Fmt1(Completion(Mean(Column(d, "status")))),
        !.goals_progress = GoalsProgress(d),
        !.status_dist = Column(d, "status_label")]

\* st.selectbox: the session's choice while it is among the options, else
\* the first option; None without options
Selectbox(options, choice) ==
    IF choice \in Range(options) THEN choice
    ELSE IF options = << >> THEN None ELSE options[1]

\* options=sorted(df['goal'].unique())
GoalOptions(d) == SortedSeq(Range(Column(d, "goal")))

\* else branch: radar, per-OKR bars and the detail table of selected_goal
GoalDetailsPage(d, selected_goal) ==
    [Page EXCEPT
        !.kinds = DetailKinds,
        !.selected_goal = selected_goal,
        !.total_okrs = Len(FilterGoal(d, selected_goal)),
        !.goal_completion =
            Completion(Mean(Column(FilterGoal(d, selected_goal), "status"))),
        !.radar = create_radar_plot(d, selected_goal),
        !.okr_chart = create_okr_progress_chart(d, selected_goal),
        !.goal_details = GoalDetails(FilterGoal(d, selected_goal))]

\* main after a successful load: the branch of the radio's value
ViewPage(d, view_type, choice) ==
    IF view_type = "Overview" THEN OverviewPage(d)
    ELSE GoalDetailsPage(d, Selectbox(GoalOptions(d), choice))

----------------------------------------------------------------------------
(* The cached load_data *)

\* smallest object identity not held by anyone
FreshRef(live) ==
    CHOOSE n \in 1..(Cardinality(live) + 1) :
        n \notin live /\ \A m \in 1..(n - 1) : m \in live

\* a cache that hands out the stored object itself (st.cache_resource)
CacheResourceRef(first, live) == first

\* @st.cache_data on a hit: the stored bytes are unpickled into a new object
CacheHitRef(first, live) == FreshRef(live)

EmptyCache == [full |-> FALSE, value |-> << >>]

\* a call that ignores the cache and parses the file again
UncachedLoad(live) ==
    IF LoadRaises(file)
    THEN [ok |-> FALSE, hit |-> FALSE, value |-> << >>, ref |-> None,
          cache |-> cache, reads |-> reads + 1, firstRef |-> firstRef]
    ELSE LET r == FreshRef(live)
         IN  [ok |-> TRUE, hit |-> cache.full, value |-> load_data(file), ref |-> r,
              cache |-> [full |-> TRUE, value |-> load_data(file)],
              reads |-> reads + 1,
              firstRef |-> IF firstRef = None THEN r ELSE firstRef]

\* load_data() through @st.cache_data: a hit returns a copy of the stored
\* table; a miss runs the body, and stores and returns its result unless it
\* raised (an exception is not cached)
CachedLoad(live) ==
    IF cache.full
    THEN [ok |-> TRUE, hit |-> TRUE, value |-> cache.value,
          ref |-> CacheHitRef(firstRef, live),
          cache |-> cache, reads |-> reads, firstRef |-> firstRef]
    ELSE IF LoadRaises(file)
    THEN [ok |-> FALSE, hit |-> FALSE, value |-> << >>, ref |-> None,
          cache |-> cache, reads |-> reads + 1, firstRef |-> firstRef]
    ELSE LET r == FreshRef(live)
         IN  [ok |-> TRUE, hit |-> FALSE, value |-> load_data(file), ref |-> r,
              cache |-> [full |-> TRUE, value |-> load_data(file)],
              reads |-> reads + 1, firstRef |-> r]

----------------------------------------------------------------------------
(* Sessions: one run of the script main per user interaction *)

\* files the dashboard process meets
SampleRows ==
    {[goal |-> 2, objective |-> 1, okr |-> 1, status |-> 4],
     [goal |-> 1, objective |-> 1, okr |-> 2, status |-> 1]}

MainFiles == CsvFiles(SampleRows) \cup BadFiles

Views == {"Overview", "Goal Details"}

NewSession ==
    [started |-> FALSE, loadOk |-> FALSE, hit |-> FALSE, view |-> "Overview",
     goalSel |-> None, picked |-> FALSE, ref |-> None, df |-> << >>, page |-> Page]

\* the session after a run whose load raised: no widget was rendered, so
\* none keeps its state
FailedRun ==
    [started |-> TRUE, loadOk |-> FALSE, hit |-> FALSE, view |-> "Overview",
     goalSel |-> None, picked |-> FALSE, ref |-> None, df |-> << >>,
     page |-> ErrorPage]

\* the session after a run whose load returned L.value; picked: whether the
\* selectbox on the page holds a choice the user made
ServedRun(L, view_type, choice, picked) ==
    LET p == ViewPage(L.value, view_type, choice)
    IN  [started |-> TRUE, loadOk |-> TRUE, hit |-> L.hit, view |-> view_type,
         goalSel |-> p.selected_goal,
         picked |-> picked /\ view_type = "Goal Details",
         ref |-> L.ref, df |-> L.value, page |-> p]

\* a run that, once a page is up, updates the widgets and leaves the page
\* as the run before drew it
mainNoRecompute(s, view_type, choice, picked) ==
    LET live == {firstRef} \cup {sess[t].ref : t \in Sessions \ {s}}
        L == CachedLoad(live)
        new == IF L.ok THEN ServedRun(L, view_type, choice, picked) ELSE FailedRun
    IN  /\ cache.full \/ reads < MaxReads
        /\ cache' = L.cache
        /\ reads' = L.reads
        /\ firstRef' = L.firstRef
        /\ sess' = [sess EXCEPT ![s] =
                      IF L.ok /\ sess[s].loadOk /\ sess[s].view = view_type
                      THEN [new EXCEPT !.page = sess[s].page] ELSE new]
        /\ UNCHANGED <<file, raw, df, out, bpc>>

\* main(), run for session s with the radio at view_type and the selectbox
\* state choice
main(s, view_type, choice, picked) ==
    LET live == {firstRef} \cup {sess[t].ref : t \in Sessions \ {s}}
        L == CachedLoad(live)
    IN  /\ cache.full \/ reads < MaxReads
        /\ cache' = L.cache
        /\ reads' = L.reads
        /\ firstRef' = L.firstRef
        /\ sess' = [sess EXCEPT ![s] =
                      IF L.ok THEN ServedRun(L, view_type, choice, picked)
                      ELSE FailedRun]
        /\ UNCHANGED <<file, raw, df, out, bpc>>

\* the page is opened or reloaded: the script runs on the widgets' state
Rerun(s) == main(s, sess[s].view, sess[s].goalSel, sess[s].picked)

\* the user picks the other view on the sidebar radio; a selectbox that
\* was not on the page has no state
SwitchView(s, v) ==
    /\ "radio" \in Range(sess[s].page.kinds)
    /\ v # sess[s].view
    /\ main(s, v, None, FALSE)

\* the user picks another goal in the selectbox
SelectGoal(s, g) ==
    /\ "selectbox" \in Range(sess[s].page.kinds)
    /\ g \in Range(GoalOptions(sess[s].df))
    /\ g # sess[s].goalSel
    /\ main(s, "Goal Details", g, TRUE)

\* index_goals.csv is replaced, removed or damaged on disk
FileChange(f) ==
    /\ f # file
    /\ file' = f
    /\ UNCHANGED <<cache, firstRef, reads, sess, raw, df, out, bpc>>

NoOut == [builder |-> "none", goal |-> None, page |-> Page]

Init ==
    /\ file \in MainFiles
    /\ cache = EmptyCache
    /\ firstRef = None
    /\ reads = 0
    /\ sess = [s \in Sessions |-> NewSession]
    /\ raw = [kind |-> "csv", labelCol |-> FALSE, rows |-> << >>]
    /\ df = << >>
    /\ out = NoOut
    /\ bpc = "idle"

\* the shape of the state: the file on disk, the cache entry, the object
\* and read bookkeeping of load_data, and per session the widgets' state
\* and the page of its last run
TypeOK ==
    /\ file.kind \in {"csv", "missing", "malformed", "nostatus"}
    /\ cache.full \in BOOLEAN
    /\ cache.full => \A i \in DOMAIN cache.value :
                        cache.value[i].status_label \in Range(status_mapping) \cup {NoLabel}
    /\ firstRef \in 0..(Cardinality(Sessions) + 1)
    /\ reads \in 0..MaxReads
    /\ \A s \in Sessions :
        /\ sess[s].view \in Views
        /\ sess[s].goalSel \in Goals \cup {None}
        /\ sess[s].ref \in 0..(Cardinality(Sessions) + 1)
        /\ sess[s].started \in BOOLEAN /\ sess[s].loadOk \in BOOLEAN
        /\ sess[s].hit \in BOOLEAN /\ sess[s].picked \in BOOLEAN
    /\ bpc \in {"idle", "file", "loaded"}
    /\ out.builder \in {"none", "overview", "details"}

Next ==
    \/ \E s \in Sessions : Rerun(s)
    \/ \E s \in Sessions, v \in Views : SwitchView(s, v)
    \/ \E s \in Sessions, g \in Goals : SelectGoal(s, g)
    \/ \E f \in MainFiles : FileChange(f)

Spec == Init /\ [][Next]_vars

----------------------------------------------------------------------------
(* Loader harness: load_data applied to any readable file *)

\* rows over every status code; objective and okr play no part in load_data
LoaderRows == [goal : Goals, objective : {1}, okr : {1}, status : RawStatuses]

LoaderFiles == CsvFiles(LoaderRows)

BLoad ==
    /\ bpc = "file"
    /\ df' = load_data(raw)
    /\ bpc' = "loaded"
    /\ UNCHANGED <<file, cache, firstRef, reads, sess, raw, out>>

LoaderInit ==
    /\ raw \in LoaderFiles
    /\ bpc = "file"
    /\ df = << >>
    /\ out = NoOut
    /\ file = raw
    /\ cache = EmptyCache
    /\ firstRef = None
    /\ reads = 0
    /\ sess = [s \in Sessions |-> NewSession]

LoaderNext == BLoad

LoaderSpec == LoaderInit /\ [][LoaderNext]_vars

----------------------------------------------------------------------------
(* Builder harness: the two branches of main applied to any loaded table *)

BuilderFiles == {f \in CsvFiles(RawRows) : ~f.labelCol}

\* the Overview branch on the loaded table
BOverview ==
    /\ bpc = "loaded"
    /\ out' = [builder |-> "overview", goal |-> None, page |-> OverviewPage(df)]
    /\ UNCHANGED <<file, cache, firstRef, reads, sess, raw, df, bpc>>

\* the Goal Details branch on the loaded table and any goal; None is what
\* the selectbox yields when the table has no goal
BGoalDetails(g) ==
    /\ bpc = "loaded"
    /\ g = None => GoalOptions(df) = << >>
    /\ out' = [builder |-> "details", goal |-> g, page |-> GoalDetailsPage(df, g)]
    /\ UNCHANGED <<file, cache, firstRef, reads, sess, raw, df, bpc>>

BuilderInit ==
    /\ raw \in BuilderFiles
    /\ bpc = "loaded"
    /\ df = load_data(raw)
    /\ out = NoOut
    /\ file = raw
    /\ cache = EmptyCache
    /\ firstRef = None
    /\ reads = 0
    /\ sess = [s \in Sessions |-> NewSession]

BuilderNext ==
    \/ BOverview
    \/ \E g \in GoalArgs \cup {None} : BGoalDetails(g)

BuilderSpec == BuilderInit /\ [][BuilderNext]_vars

----------------------------------------------------------------------------
(* Properties *)

Rendered(s) == Range(sess[s].page.kinds)

DashboardKinds ==
    {"radio", "selectbox", "metric", "bar_goals", "pie", "radar", "bar_okrs",
     "dataframe"}

\* the page of a hard stop: the title, the error message, nothing else
HardStop(p) ==
    /\ p.kinds = <<"title", "error">>
    /\ p.goals_progress = << >> /\ p.status_dist = << >>
    /\ p.radar = << >> /\ p.okr_chart = << >> /\ p.goal_details = << >>

\* C1: a run of main whose load_data call raises (no cached table, and the
\* source missing, unparseable or without a status column) ends on the error
\* message: its page holds no radio, selectbox, metric, chart or table; and
\* the error message appears on no page of a run whose load succeeded.
C1_LoadFailureStops ==
    /\ [](\A s \in Sessions :
            /\ (sess[s].started /\ ~sess[s].loadOk) =>
                   /\ HardStop(sess[s].page)
                   /\ Rendered(s) \cap DashboardKinds = {}
            /\ sess[s].loadOk => "error" \notin Rendered(s))
    /\ [][\A s \in Sessions :
            (~cache.full /\ LoadRaises(file) /\ sess'[s] # sess[s]) =>
                /\ ~sess'[s].loadOk
                /\ HardStop(sess'[s].page)
                /\ ~cache'.full]_vars

\* a session sits on the error page while the source cannot be loaded
C1_Witness ==
    \E s \in Sessions :
        /\ sess[s].started /\ ~sess[s].loadOk
        /\ LoadRaises(file) /\ ~cache.full /\ reads > 0

\* C2: once a load has succeeded the cached table never changes and the
\* source is never read again, whatever the sessions do and whatever
\* happens to the file; every run that loaded got exactly the cached table.
C2_LoadedOnce ==
    /\ [](\A s \in Sessions : sess[s].loadOk =>
            (cache.full /\ sess[s].df = cache.value))
    /\ [][cache.full => (cache' = cache /\ reads' = reads)]_vars

\* a run served from the cache although the file on disk no longer yields
\* the cached table
C2_Witness ==
    \E s \in Sessions :
        /\ sess[s].loadOk /\ sess[s].hit
        /\ LoadRaises(file) \/ load_data(file) # sess[s].df
        /\ \E t \in Sessions \ {s} : sess[t].loadOk /\ sess[t].view # sess[s].view

\* the label the specification fixes for a status code
FixedLabel(st) ==
    CASE st = 0 -> "Not Started"
      [] st = 1 -> "Planned"
      [] st = 2 -> "Ongoing"
      [] st = 3 -> "Optimizing"
      [] st = 4 -> "Completed"
      [] OTHER -> "NaN"

\* C3: load_data returns one row per row of the file, with the file's
\* status, and a status_label that is the fixed label of that status, also
\* when the file has a status_label column of its own; a status outside
\* 0..4 gets the missing label and the load still returns.
C3_StatusLabel ==
    bpc = "loaded" =>
        /\ Len(df) = Len(raw.rows)
        /\ \A i \in DOMAIN df :
            /\ df[i].status = raw.rows[i].status
            /\ df[i].goal = raw.rows[i].goal
            /\ df[i].status_label = FixedLabel(df[i].status)

\* a loaded file that had its own status_label column, a status in 0..4
\* and one outside
C3_Witness ==
    /\ bpc = "loaded"
    /\ raw.labelCol
    /\ \E i, j \in DOMAIN df : df[i].status = 5 /\ df[j].status = 3

ValidStatuses(d) == \A i \in DOMAIN d : d[i].status \in 0..4

\* rows of d of goal g, and among them those of objective o
RowsOf(d, g) == {i \in DOMAIN d : d[i].goal = g}
RowsOfObj(d, g, o) == {i \in DOMAIN d : d[i].goal = g /\ d[i].objective = o}

\* sum of the statuses of the rows I of d, counted status by status
StatusTotal(d, I) ==
    LET n(k) == Cardinality({i \in I : d[i].status = k})
    IN  n(1) + 2 * n(2) + 3 * n(3) + 4 * n(4) + 5 * n(5)

\* the rational x equals a / b
Equals(x, a, b) == ~x.nan /\ x.den > 0 /\ x.num * b = a * x.den

\* C4: with statuses in 0..4 the goals overview has exactly one entry per
\* goal of the table, its completion being (sum of the goal's statuses) *
\* 100 / (4 * number of its rows): within [0,100], 100 when all its rows are
\* at 4 and 0 when all are at 0.
C4_GoalsOverview ==
    (out.builder = "overview" /\ ValidStatuses(df)) =>
        LET gp == out.page.goals_progress
        IN  /\ {gp[i].goal : i \in DOMAIN gp} = {df[i].goal : i \in DOMAIN df}
            /\ Len(gp) = Cardinality({df[i].goal : i \in DOMAIN df})
            /\ \A i \in DOMAIN gp :
                LET I == RowsOf(df, gp[i].goal)
                    c == gp[i].completion
                IN  /\ Equals(c, StatusTotal(df, I) * 100, 4 * Cardinality(I))
                    /\ 0 <= c.num /\ c.num <= 100 * c.den
                    /\ (\A j \in I : df[j].status = 4) => c.num = 100 * c.den
                    /\ (\A j \in I : df[j].status = 0) => c.num = 0

\* an overview of two goals, one complete and one partly done
C4_Witness ==
    /\ out.builder = "overview" /\ ValidStatuses(df)
    /\ Len(out.page.goals_progress) = 2
    /\ \E i, j \in DOMAIN out.page.goals_progress :
        LET a == out.page.goals_progress[i].completion
            b == out.page.goals_progress[j].completion
        IN  a.num = 100 * a.den /\ 0 < b.num /\ b.num < 100 * b.den

\* C5: with statuses in 0..4 the radar of a goal has exactly one axis per
\* objective among that goal's rows and none for another goal's objective;
\* num_okrs is the number of rows of the (goal, objective) pair and r their
\* mean status / 4, within [0,1].
C5_ObjectiveRadar ==
    (out.builder = "details" /\ ValidStatuses(df)) =>
        LET rd == out.page.radar
            g == out.goal
        IN  /\ {rd[i].objective : i \in DOMAIN rd} =
                   {df[i].objective : i \in RowsOf(df, g)}
            /\ Len(rd) = Cardinality({df[i].objective : i \in RowsOf(df, g)})
            /\ \A i \in DOMAIN rd :
                LET I == RowsOfObj(df, g, rd[i].objective)
                IN  /\ rd[i].num_okrs = Cardinality(I)
                    /\ Equals(rd[i].r, StatusTotal(df, I), 4 * Cardinality(I))
                    /\ 0 <= rd[i].r.num /\ rd[i].r.num <= rd[i].r.den

\* the radar of a goal whose two rows share an objective and differ in
\* status
C5_Witness ==
    /\ out.builder = "details" /\ ValidStatuses(df)
    /\ Len(out.page.radar) = 1
    /\ out.page.radar[1].num_okrs = 2
    /\ 0 < out.page.radar[1].r.num
    /\ out.page.radar[1].r.num < out.page.radar[1].r.den

\* the radar of one goal of a table whose other goal has another objective
C5_WitnessScoped ==
    /\ out.builder = "details" /\ ValidStatuses(df)
    /\ Len(out.page.radar) = 1
    /\ \E i \in DOMAIN df :
        df[i].goal # out.goal /\ df[i].objective # out.page.radar[1].objective

\* the detail table holds exactly the rows of goal g, each once, with their
\* own objective, okr and status_label
ExactlyRowsOf(t, d, g) ==
    /\ {t[i].idx : i \in DOMAIN t} = RowsOf(d, g)
    /\ Len(t) = Cardinality(RowsOf(d, g))
    /\ \A i \in DOMAIN t :
        /\ t[i].objective = d[t[i].idx].objective
        /\ t[i].okr = d[t[i].idx].okr
        /\ t[i].status_label = d[t[i].idx].status_label

KeyLess(a, b) ==
    a.objective < b.objective \/ (a.objective = b.objective /\ a.okr < b.okr)

KeyEqual(a, b) == a.objective = b.objective /\ a.okr = b.okr

\* rows of equal (objective, okr) are in the order of the loaded table
Stable(t) ==
    \A i, j \in DOMAIN t : (i < j /\ KeyEqual(t[i], t[j])) => t[i].idx < t[j].idx

\* C6 as stated: the detail table of a goal holds exactly that goal's rows,
\* strictly ascending by (objective, okr), rows of equal key in table order.
C6_StrictlyAscending ==
    out.builder = "details" =>
        LET t == out.page.goal_details
        IN  /\ ExactlyRowsOf(t, df, out.goal)
            /\ \A i, j \in DOMAIN t : i < j => KeyLess(t[i], t[j])
            /\ Stable(t)

\* C6 amended: the detail table of a goal holds exactly that goal's rows,
\* each once; no row comes before a row of smaller (objective, okr), so the
\* order is strictly ascending between rows of different key, and rows of
\* equal key keep their order of the loaded table.
C6_AscendingStable ==
    out.builder = "details" =>
        LET t == out.page.goal_details
        IN  /\ ExactlyRowsOf(t, df, out.goal)
            /\ \A i, j \in DOMAIN t : i < j => ~KeyLess(t[j], t[i])
            /\ Stable(t)

\* a detail table of two rows with the same (objective, okr) and different
\* labels
C6_Witness ==
    /\ out.builder = "details"
    /\ Len(out.page.goal_details) = 2
    /\ KeyEqual(out.page.goal_details[1], out.page.goal_details[2])
    /\ out.page.goal_details[1].status_label # out.page.goal_details[2].status_label

\* a detail table whose rows the sort had to swap
C6_WitnessSwapped ==
    /\ out.builder = "details"
    /\ Len(out.page.goal_details) = 2
    /\ out.page.goal_details[1].idx = 2

C7_WitnessEmptyTable ==
    /\ df = << >>
    /\ out.builder = "overview"
    /\ out.page.avg_completion.nan

\* C8 as stated: a load served from the cache returns the very object the
\* first call returned.
C8_SameObject ==
    \A s \in Sessions : sess[s].hit => sess[s].ref = firstRef

\* C8 amended: a load served from the cache returns a table equal in
\* contents to the one the first call returned and stored, without reading
\* the source, as a new object: never the object of the first call.
C8_EqualCopy ==
    /\ [](\A s \in Sessions : sess[s].hit =>
            /\ sess[s].df = cache.value
            /\ sess[s].ref # None /\ firstRef # None
            /\ sess[s].ref # firstRef)
    /\ [][cache.full => reads' = reads]_vars

\* a session whose last run was served from the cache
C8_Witness ==
    \E s \in Sessions : sess[s].hit /\ sess[s].loadOk /\ firstRef # None

GoalsOf(d) == {d[i].goal : i \in DOMAIN d}

\* C9 as stated: after a successful load a session is in exactly one of the
\* two views and shows that view's components only; in Goal Details the
\* selected goal is a goal of the table, the lowest one unless the user
\* picked another.
C9_ViewAndGoal ==
    \A s \in Sessions : sess[s].loadOk =>
        /\ sess[s].view \in Views
        /\ sess[s].view = "Overview" => sess[s].page.kinds = OverviewKinds
        /\ sess[s].view = "Goal Details" =>
            /\ sess[s].page.kinds = DetailKinds
            /\ sess[s].page.selected_goal \in GoalsOf(sess[s].df)
            /\ ~sess[s].picked =>
                   \A g \in GoalsOf(sess[s].df) : sess[s].page.selected_goal <= g

\* what C9 states, for the sessions whose table has at least one row
C9_NonEmptyTables ==
    \A s \in Sessions : (sess[s].loadOk /\ sess[s].df # << >>) =>
        /\ sess[s].view \in Views
        /\ sess[s].view = "Overview" => sess[s].page.kinds = OverviewKinds
        /\ sess[s].view = "Goal Details" =>
            /\ sess[s].page.kinds = DetailKinds
            /\ sess[s].page.selected_goal \in GoalsOf(sess[s].df)
            /\ ~sess[s].picked =>
                   \A g \in GoalsOf(sess[s].df) : sess[s].page.selected_goal <= g

\* Goal Details drawn for no goal: the table is empty and the selectbox
\* yielded None
C9_NoGoalSelected ==
    \E s \in Sessions :
        /\ sess[s].loadOk /\ sess[s].view = "Goal Details"
        /\ sess[s].df = << >>
        /\ sess[s].page.selected_goal = None
        /\ sess[s].page.kinds = DetailKinds

\* C10: no run changes the cached table, and the page of every session is
\* the page a first run would compute from the cached table for the
\* session's current view and selected goal, whatever was selected before.
C10_FullRecompute ==
    /\ [](\A s \in Sessions : sess[s].loadOk =>
            /\ sess[s].df = cache.value
            /\ sess[s].page.selected_goal = sess[s].goalSel
            /\ sess[s].page = ViewPage(cache.value, sess[s].view, sess[s].goalSel))
    /\ [][cache.full => cache' = cache]_vars

\* a session back on the lowest goal after the user had picked another
C10_Witness ==
    \E s \in Sessions :
        /\ sess[s].loadOk /\ sess[s].view = "Goal Details"
        /\ sess[s].picked
        /\ \A g \in GoalsOf(sess[s].df) : sess[s].goalSel <= g
        /\ Cardinality(GoalsOf(sess[s].df)) = 2

====
